---- MODULE Spec2Model ----
(***************************************************************************)
(* farewatch: the snapshot-and-alert pipeline.                             *)
(*                                                                         *)
(* Two scripts drive the pipeline over one SQLite store (app/store/db.py): *)
(*   scripts/run_scheduler.py       main / process_watch                   *)
(*   scripts/snapshot_all_watches.py main / snapshot_single_watch          *)
(* The store is filled through the API (create_watch, subscribe).          *)
(*                                                                         *)
(* Prices are integers of minor currency units.  A provider amount is a    *)
(* decimal string with two fraction digits; it is represented by its value *)
(* in cents, on which int(round(float(s) * 100)) is exact.                 *)
(* Time is counted in hours.  An ISO timestamp string is a record          *)
(* [t, aware]: aware is TRUE when the string carries a UTC offset          *)
(* (datetime.now(timezone.utc).isoformat()) and FALSE when it does not     *)
(* (datetime.utcnow().isoformat()).                                        *)
(***************************************************************************)
EXTENDS Integers, Sequences, FiniteSets, TLC

\* ---------------------------------------------------------------- bounds
MaxSubs == 2
MaxSnaps == 3
MaxCallSnaps == 2
MaxPrice == 2
MaxOffers == 2
MaxTicks == 1
MaxCandOffers == 4
MaxTokens == 2
MaxHist == 4
MaxStamp == 1
MaxCallers == 2
MaxWatchIds == 3
MaxStoreSnaps == 1

\* ------------------------------------------------------ program constants
MIN_HOURS_BETWEEN_ALERTS == 6
MAX_CANDIDATES == 3
max_retries == 3
\* backoff = 0.75 seconds, counted in quarters of a second
initial_backoff == 3

\* Python None / SQL NULL is the empty tuple, a value v that is present is <<v>>
None == <<>>
Some(v) == <<v>>
Val(o) == o[1]
Prices == 1..MaxPrice
\* The watches created before the runs: one route on two dates, the later
\* date first.  The (watch id, email) pairs that subscribe.
WatchKeys == <<[route |-> "BWI-SFO", depart_date |-> 2],
               [route |-> "BWI-SFO", depart_date |-> 1]>>
SubPairs == <<[watch_id |-> 1, email |-> "a@x"], [watch_id |-> 1, email |-> "b@x"],
              [watch_id |-> 2, email |-> "a@x"]>>
\* The clock advances in steps of the cooldown: two moments are either less
\* than MIN_HOURS_BETWEEN_ALERTS apart (the same step) or at least that.
TickHours == MIN_HOURS_BETWEEN_ALERTS

VARIABLES
  watches,          \* table watches: set of rows [id, route, depart_date]
  watch_seq,        \* AUTOINCREMENT of watches.id (last id handed out)
  subscriptions,    \* table watch_subscriptions: set of rows
  sub_seq,          \* AUTOINCREMENT of watch_subscriptions.id
  fare_snapshots,   \* table fare_snapshots, in rowid order
  now,              \* the wall clock, in hours
  pc,               \* run_scheduler.main: "idle" | "running"
  todo,             \* run_scheduler.main: the watches still to process
  runlog,           \* log: the watches processed so far in the current run
  last,             \* log: the entry of the watch just processed, until it is
                    \* written out
  mailed,           \* log: per subscription id, the emails that left for it
  token,            \* AmadeusClient._token
  req,              \* AmadeusClient._request: "idle" | "running" | "returned" | "raised"
  attempt,          \* _request: the loop variable
  backoff,          \* _request: the next delay, in quarters of a second
  http_log,         \* log: what the current _request call did, in order
  error,            \* _request: the status of the AmadeusHTTPError raised
  inflight,         \* the store calls that have begun and not returned
  ret,              \* log: what the last call of a function under study returned
  issued            \* log: the (key, id) pairs ensure_watch has returned

vars == <<watches, watch_seq, subscriptions, sub_seq, fare_snapshots, now,
          pc, todo, runlog, last, mailed,
          token, req, attempt, backoff, http_log, error, inflight, ret, issued>>
db == <<watches, watch_seq, subscriptions, sub_seq, fare_snapshots>>
pipeline == <<now, pc, todo, runlog, last, mailed>>
client == <<token, req, attempt, backoff, http_log, error>>
store_calls == <<inflight, ret, issued>>

\* ------------------------------------------------------------ sequences
Min(S) == CHOOSE x \in S : \A y \in S : x <= y
Range(s) == {s[i] : i \in 1..Len(s)}

RECURSIVE InsertSorted(_, _)
\* x put into the ascending sequence s, after the elements equal to it
InsertSorted(x, s) ==
  IF s = <<>> THEN <<x>>
  ELSE IF x < Head(s) THEN <<x>> \o s
       ELSE <<Head(s)>> \o InsertSorted(x, Tail(s))

RECURSIVE sorted(_)
\* Python sorted() on a list of integers
sorted(s) == IF s = <<>> THEN <<>> ELSE InsertSorted(s[Len(s)], sorted(SubSeq(s, 1, Len(s) - 1)))

\* ------------------------------------------------------------ timestamps
\* datetime.utcnow().isoformat(timespec="seconds"): no offset in the string
utcnow_naive(t) == [t |-> t, aware |-> FALSE]
\* datetime.now(timezone.utc).isoformat(timespec="seconds"): "+00:00"
utcnow_aware(t) == [t |-> t, aware |-> TRUE]

\* date.today() at hour t of the clock: the clock starts on the departure
\* date of the later of the two watches, the other watch's date has passed
today(t) == WatchKeys[1].depart_date + (t \div 24)

\* ------------------------------------------------------------- db reads
RECURSIVE InsertBeforeSame(_, _)
\* variant: a row put before the rows of its own timestamp
InsertBeforeSame(r, s) ==
  IF s = <<>> THEN <<r>>
  ELSE IF r.seen_utc.t <= Head(s).seen_utc.t THEN <<r>> \o s
       ELSE <<Head(s)>> \o InsertBeforeSame(r, Tail(s))

RECURSIVE InsertBySeen(_, _)
\* r put into the rows s ordered by seen_utc, after the rows of its timestamp
InsertBySeen(r, s) ==
  IF s = <<>> THEN <<r>>
  ELSE IF r.seen_utc.t < Head(s).seen_utc.t THEN <<r>> \o s
       ELSE <<Head(s)>> \o InsertBySeen(r, Tail(s))

RECURSIVE OrderBySeenAsc(_)
\* ORDER BY seen_utc ASC over idx_snapshots_watch_time: rows of one
\* timestamp come out in rowid order
OrderBySeenAsc(rows) ==
  IF rows = <<>> THEN <<>>
  ELSE InsertBySeen(rows[Len(rows)], OrderBySeenAsc(SubSeq(rows, 1, Len(rows) - 1)))

SnapshotsOf(snaps, wid) == SelectSeq(snaps, LAMBDA r : r.watch_id = wid)

latest_snapshot(snaps, wid) ==
  LET rows == OrderBySeenAsc(SnapshotsOf(snaps, wid))
  IN IF rows = <<>> THEN None ELSE Some(rows[Len(rows)])

\* variant: the element at n // 2 whatever n
median_upper(prices_sorted, n) == prices_sorted[(n \div 2) + 1]

\* "prices_sorted[n//2] if n % 2 else (prices_sorted[n//2 - 1] +
\* prices_sorted[n//2]) // 2", the indices counted from 1
median_of(prices_sorted, n) ==
  IF n % 2 = 1 THEN prices_sorted[(n \div 2) + 1]
  ELSE (prices_sorted[n \div 2] + prices_sorted[(n \div 2) + 1]) \div 2

\* the statistics of the rows of one watch, oldest first
stats_of_rows(rows, prices_sorted, n) ==
  IF rows = <<>> THEN None
  ELSE Some([min_cents |-> prices_sorted[1],
             median_cents |-> median_of(prices_sorted, n),
             n |-> n,
             latest_cents |-> rows[Len(rows)].price_cents])

prices_of(rows) == [i \in 1..Len(rows) |-> rows[i].price_cents]

stats_of(rows) == stats_of_rows(rows, sorted(prices_of(rows)), Len(rows))

history_min_median(snaps, wid) == stats_of(OrderBySeenAsc(SnapshotsOf(snaps, wid)))

RECURSIVE OrderById(_)
OrderById(S) ==
  IF S = {} THEN <<>>
  ELSE LET r == CHOOSE x \in S : \A y \in S : x.id <= y.id
       IN <<r>> \o OrderById(S \ {r})

\* variant: the SELECT without its WHERE watch_id = ?
get_subscriptions_any_watch(subs, wid) ==
  OrderById(subs)

get_subscriptions_for_watch(subs, wid) ==
  OrderById({s \in subs : s.watch_id = wid})

\* ------------------------------------------------------------ db writes
\* variant: one row per watch and timestamp, INSERT OR REPLACE
append_snapshot_upsert(snaps, wid, price_total, t) ==
  IF \E i \in 1..Len(snaps) :
       snaps[i].watch_id = wid /\ snaps[i].seen_utc = utcnow_naive(t)
    THEN [i \in 1..Len(snaps) |->
            IF snaps[i].watch_id = wid /\ snaps[i].seen_utc = utcnow_naive(t)
              THEN [snaps[i] EXCEPT !.price_cents = price_total]
            ELSE snaps[i]]
  ELSE Append(snaps, [watch_id |-> wid, seen_utc |-> utcnow_naive(t),
                      price_cents |-> price_total])

\* INSERT INTO fare_snapshots: a new row at the end, seen_utc the clock
append_snapshot(snaps, wid, price_total, t) ==
  Append(snaps, [watch_id |-> wid, seen_utc |-> utcnow_naive(t),
                 price_cents |-> price_total])

\* variant: the UPDATE sets last_emailed_seen_utc and leaves the price column
update_subscription_seen_only(subs, sid, cents, seen_utc) ==
  {IF s.id = sid
     THEN [s EXCEPT !.last_emailed_seen_utc = Some(seen_utc)]
     ELSE s : s \in subs}

\* UPDATE watch_subscriptions SET last_emailed_cents, last_emailed_seen_utc
update_subscription_last_emailed(subs, sid, cents, seen_utc) ==
  {IF s.id = sid
     THEN [s EXCEPT !.last_emailed_cents = Some(cents),
                    !.last_emailed_seen_utc = Some(seen_utc)]
     ELSE s : s \in subs}

\* ----------------------------------------------------------------- deals
\* variant: no condition on the number of snapshots
new_low_any_n(stats) ==
  IF stats = None THEN FALSE
  ELSE Val(stats).latest_cents <= Val(stats).min_cents

\* "if not stats or stats['n'] < 2: return None", then latest <= min_cents
new_low_in(stats) ==
  IF stats = None \/ Val(stats).n < 2 THEN FALSE
  ELSE Val(stats).latest_cents <= Val(stats).min_cents

is_new_low(snaps, wid) == new_low_in(history_min_median(snaps, wid))


\* --------------------------------------------------------------- emailer
\* What the notification capability finds when it is called: the feature
\* flag off, a credential or recipient missing, the transport raising, or
\* the message accepted.
MailOutcomes == {"disabled", "missing", "error", "sent"}
\* send_email returns None in every case; TRUE here says a message left.
send_email(mail) == mail = "sent"

\* variant: the exception of the transport is let out
send_email_raises_on_error(mail) == mail = "error"

\* whether send_email lets an exception out: the two early returns, and
\* "except Exception as e: print(...)" around SendGridAPIClient and sg.send
send_email_raises(mail) == FALSE

\* ----------------------------------------------------------- price source
\* A response to a search: an error status, another exception, or a list
\* of offers, each given by its advertised total.
RECURSIVE SeqsUpTo(_, _)
SeqsUpTo(S, n) ==
  IF n = 0 THEN {<<>>}
  ELSE LET shorter == SeqsUpTo(S, n - 1)
       IN shorter \cup {Append(q, x) : q \in {r \in shorter : Len(r) = n - 1}, x \in S}

SearchResponsesUpTo(n) ==
  {[kind |-> "http_error", offers |-> <<>>], [kind |-> "exception", offers |-> <<>>]}
    \cup {[kind |-> "ok", offers |-> o] : o \in SeqsUpTo(Prices, n)}

SearchResponses == SearchResponsesUpTo(MaxOffers)

\* A response to one price_confirm call.
ConfirmOk == {[kind |-> "ok", total |-> p] : p \in Prices}
\* AmadeusHTTPError with status 400, with another 4xx status, with a 5xx
\* status (after the retries of _request), or an exception that is no
\* AmadeusHTTPError (requests.exceptions.Timeout, KeyError on the body).
ConfirmHTTPError == {[kind |-> "http400", total |-> 0], [kind |-> "http4xx", total |-> 0],
                     [kind |-> "http5xx", total |-> 0]}
ConfirmFail == ConfirmHTTPError \cup {[kind |-> "exception", total |-> 0]}
Reject400 == [kind |-> "http400", total |-> 0]

\* The responses to the successive price_confirm calls made for n sorted
\* offers: the loop goes on only after a 400.
ConfirmTraces(n) ==
  UNION {{[i \in 1..k |-> IF i < k THEN Reject400 ELSE x] :
             x \in {y \in ConfirmOk \cup ConfirmFail : y = Reject400 => k = n}} :
         k \in 1..n}

\* Where the store raises (sqlite3.Error) during one watch's processing.
Faults == {"none", "append", "update"}

\* ------------------------------------------------- AmadeusClient._request
\* What requests.request gives back: a response with a status, or an
\* exception (timeout, connection error).
HTTPStatuses == {200, 400, 401, 404, 503}
Responses ==
  {[kind |-> "http", status |-> s] : s \in HTTPStatuses}
    \cup {[kind |-> "exception", status |-> 0]}

AmadeusHTTPError(status) == Some([kind |-> "AmadeusHTTPError", status |-> status])
OtherException == Some([kind |-> "exception", status |-> 0])

\* variant: the delay kept as it is
backoff_same(b) == b

\* "backoff *= 2"
next_backoff(b) == b * 2

\* variant: client errors retried like server errors
retries_4xx_too(status, att) == 400 <= status /\ status < 600 /\ att < max_retries - 1

\* "if 500 <= r.status_code < 600 and attempt < max_retries - 1"
retries_5xx(status, att) == 500 <= status /\ status < 600 /\ att < max_retries - 1

\* "if r.status_code == 401 and attempt == 0"
refreshes_on_401(status, att) == status = 401 /\ att = 0

\* One entry of http_log.
Sent(status, tok) == [kind |-> "request", status |-> status, token |-> tok, delay |-> 0]
Fetched(tok) == [kind |-> "token", status |-> 0, token |-> tok, delay |-> 0]
Slept(d) == [kind |-> "sleep", status |-> 0, token |-> None, delay |-> d]

\* "continue": the next turn of "for attempt in range(max_retries)", or the
\* statement after the loop, raise AmadeusHTTPError(599, retry_exhausted)
continue(tok, att, bo, log) ==
  IF att + 1 < max_retries
    THEN [token |-> tok, attempt |-> att + 1, backoff |-> bo, req |-> "running",
          error |-> None, log |-> log]
  ELSE [token |-> tok, attempt |-> att + 1, backoff |-> bo, req |-> "raised",
        error |-> AmadeusHTTPError(599), log |-> log]

leave(tok, att, bo, how, err, log) ==
  [token |-> tok, attempt |-> att, backoff |-> bo, req |-> how, error |-> err, log |-> log]

\* What one turn of the loop does once the Authorization header is made
\* with token tok: resp is what requests.request gives, refresh_ok whether
\* the token request of a refresh succeeds.
after_headers(tok, att, bo, resp, refresh_ok, log) ==
  IF resp.kind = "exception"
    THEN leave(tok, att, bo, "raised", OtherException, Append(log, Sent(resp.status, tok)))
  ELSE IF 200 <= resp.status /\ resp.status < 300
    THEN leave(tok, att, bo, "returned", None, Append(log, Sent(resp.status, tok)))
  ELSE IF refreshes_on_401(resp.status, att)
    THEN IF refresh_ok
           THEN continue(Some(Val(tok) + 1), att, bo,
                         log \o <<Sent(resp.status, tok), Fetched(Some(Val(tok) + 1))>>)
         ELSE leave(None, att, bo, "raised", OtherException,
                    Append(log, Sent(resp.status, tok)))
  ELSE IF retries_5xx(resp.status, att)
    THEN continue(tok, att, next_backoff(bo),
                  log \o <<Sent(resp.status, tok), Slept(bo)>>)
  ELSE leave(tok, att, bo, "raised", AmadeusHTTPError(resp.status),
             Append(log, Sent(resp.status, tok)))

\* One turn of the loop of _request.  self._headers() calls self.token(),
\* which requests a token when self._token is not set: fetch_ok says whether
\* that request succeeds (raise_for_status raises when it does not).
request_turn(tok, att, bo, resp, fetch_ok, refresh_ok, log) ==
  IF tok = None /\ ~fetch_ok THEN leave(None, att, bo, "raised", OtherException, log)
  ELSE IF tok = None
    THEN after_headers(Some(1), att, bo, resp, refresh_ok, Append(log, Fetched(Some(1))))
  ELSE after_headers(tok, att, bo, resp, refresh_ok, log)

\* search_offers / price_confirm call self._request(...)
request_start ==
  /\ req = "idle"
  /\ token # None => Val(token) < MaxTokens
  /\ req' = "running"
  /\ attempt' = 0
  /\ backoff' = initial_backoff
  /\ http_log' = <<>>
  /\ error' = None
  /\ UNCHANGED <<db, pipeline, store_calls, token>>

\* one turn of "for attempt in range(max_retries)"
request_attempt ==
  /\ req = "running"
  /\ \E resp \in Responses :
       \E fetch_ok \in (IF token = None THEN BOOLEAN ELSE {TRUE}) :
         \E refresh_ok \in (IF resp.status = 401 THEN BOOLEAN ELSE {TRUE}) :
           \E r \in {request_turn(token, attempt, backoff, resp, fetch_ok, refresh_ok,
                                  http_log)} :
             /\ token' = r.token
             /\ attempt' = r.attempt
             /\ backoff' = r.backoff
             /\ req' = r.req
             /\ error' = r.error
             /\ http_log' = r.log
  /\ UNCHANGED <<db, pipeline, store_calls>>

\* _request has returned or raised: the caller goes on
request_end ==
  /\ req \in {"returned", "raised"}
  /\ req' = "idle"
  /\ UNCHANGED <<db, pipeline, store_calls, token, attempt, backoff, http_log, error>>

\* ---------------------------------------------------------- run_scheduler
\* variant: the SELECT without the JOIN on watch_subscriptions
fetch_watches_all(ws, subs) == ws

\* FROM watches w JOIN watch_subscriptions s ON s.watch_id = w.id
fetch_watches_join(ws, subs) == {w \in ws : \E s \in subs : s.watch_id = w.id}

RECURSIVE OrderByDepartIdDesc(_)
\* ORDER BY w.depart_date ASC, w.id DESC
OrderByDepartIdDesc(S) ==
  IF S = {} THEN <<>>
  ELSE LET r == CHOOSE x \in S : \A y \in S :
                  \/ x.depart_date < y.depart_date
                  \/ (x.depart_date = y.depart_date /\ x.id >= y.id)
       IN <<r>> \o OrderByDepartIdDesc(S \ {r})

fetch_watches_with_subscribers(ws, subs) ==
  OrderByDepartIdDesc(fetch_watches_join(ws, subs))

\* min(offers, key=total_price_cents): None on an error or an empty list
search_best_offer_for_watch(resp) ==
  IF resp.kind # "ok" \/ resp.offers = <<>> THEN None
  ELSE Some(Min(Range(resp.offers)))

\* variant: the comparison of the elapsed hours made with <=
throttled_inclusive(last_seen, t) ==
  IF Val(last_seen).aware THEN t - Val(last_seen).t <= MIN_HOURS_BETWEEN_ALERTS
  ELSE FALSE

\* datetime.now(timezone.utc) - datetime.fromisoformat(last_seen_str) raises
\* TypeError when the stored string has no offset; the except clause passes.
throttled(last_seen, t) ==
  IF Val(last_seen).aware THEN t - Val(last_seen).t < MIN_HOURS_BETWEEN_ALERTS
  ELSE FALSE

\* variant: the comparison of the prices made with >
price_worse(last_price, current_price) ==
  last_price # None /\ current_price > Val(last_price)

\* "if last_price is not None and current_price >= last_price: return False"
price_not_improved(last_price, current_price) ==
  last_price # None /\ current_price >= Val(last_price)

\* variant: the decision made without the new-low rule
should_send_email_ungated(sub, snaps, wid, latest_snap, t) ==
  LET current_price == latest_snap.price_cents
      last_price == sub.last_emailed_cents
      last_seen_str == sub.last_emailed_seen_utc
  IN IF price_not_improved(last_price, current_price) THEN FALSE
     ELSE IF last_seen_str # None /\ throttled(last_seen_str, t) THEN FALSE
     ELSE TRUE

should_send_email(sub, snaps, wid, latest_snap, t) ==
  LET current_price == latest_snap.price_cents
      last_price == sub.last_emailed_cents
      last_seen_str == sub.last_emailed_seen_utc
  IN IF ~is_new_low(snaps, wid) THEN FALSE
     ELSE IF price_not_improved(last_price, current_price) THEN FALSE
     ELSE IF last_seen_str # None /\ throttled(last_seen_str, t) THEN FALSE
     ELSE TRUE

\* The subscription rows to write after send_email has returned.
rows_to_update(sent, mail) == sent

\* One dispatch entry of the log: what was decided for one subscription.
DispatchRec(sub, price, new_low, sent, mail, updated, t) ==
  [sub |-> sub.id, price |-> price, new_low |-> new_low,
   prev_cents |-> sub.last_emailed_cents, prev_seen |-> sub.last_emailed_seen_utc,
   sent |-> sent, delivered |-> sent /\ send_email(mail), updated |-> updated, t |-> t,
   mail |-> IF sent THEN mail ELSE "none",
   returned |-> sent /\ ~send_email_raises(mail)]

RECURSIVE UpdateAll(_, _, _, _)
UpdateAll(subs, ids, cents, seen_utc) ==
  IF ids = {} THEN subs
  ELSE LET i == CHOOSE x \in ids : TRUE
       IN UpdateAll(update_subscription_last_emailed(subs, i, cents, seen_utc),
                    ids \ {i}, cents, seen_utc)

\* "for sub in subs": rows are the watch's subscriptions in id order, want
\* those the loop does not skip.  Each of them gets send_email, then
\* update_subscription_last_emailed.  With fault "update" the first update
\* raises, after its send_email, and the loop is left; an exception out of
\* send_email would leave it the same way, before the update.
dispatch_loop(subs, rows, want, new_low, cents, seen_utc, t, fault, mail) ==
  LET first == CHOOSE s \in want : \A o \in want : s.id <= o.id
      raised == (fault = "update" \/ send_email_raises(mail)) /\ want # {}
      seen == IF raised THEN {s \in rows : s.id <= first.id} ELSE rows
      sent == IF raised THEN {first} ELSE want
      updated == IF raised THEN {} ELSE rows_to_update(want, mail)
  IN [subs |-> UpdateAll(subs, {s.id : s \in updated}, cents, seen_utc),
      raised |-> raised,
      dispatch |-> {DispatchRec(s, cents, new_low, s \in sent, mail, s \in updated, t) :
                      s \in seen}]

send_alerts_for_watch(subs, snaps, wid, latest_snap, t, fault, mail) ==
  dispatch_loop(subs, Range(get_subscriptions_for_watch(subs, wid)),
                {s \in Range(get_subscriptions_for_watch(subs, wid)) :
                   should_send_email(s, snaps, wid, latest_snap, t)},
                is_new_low(snaps, wid), latest_snap.price_cents, latest_snap.seen_utc,
                t, fault, mail)

\* The emails of one dispatch added to the log of emails: the price, and
\* whether the subscription row was written after it.
Mailed(m, dispatch) ==
  [i \in DOMAIN m |->
     IF \E d \in dispatch : d.sub = i /\ d.delivered
       THEN LET d == CHOOSE x \in dispatch : x.sub = i
            IN Append(m[i], [price |-> d.price, updated |-> d.updated])
     ELSE m[i]]

\* One entry of the log: what one watch's processing did.  advertised is the
\* search total of the offer taken, confirmed the total price_confirm
\* returned for it, appended the price_cents of the row inserted.
LogRec(via, wid, search, calls, advertised, confirmed, appended, outcome, dispatch) ==
  [via |-> via, watch |-> wid, search |-> search, confirm_calls |-> calls,
   advertised |-> advertised, confirmed |-> confirmed, appended |-> appended,
   outcome |-> outcome, dispatch |-> dispatch, offers |-> 0, confirm |-> "none"]

\* The entry of a processing that confirms prices: the number of offers the
\* search returned and the kind of the last price_confirm response.
Confirming(log, n_offers, kind) == [log EXCEPT !.offers = n_offers, !.confirm = kind]

\* The result of a processing that changed nothing in the store.
Unchanged(snaps, subs, log) == [snaps |-> snaps, subs |-> subs, log |-> log]

\* The result of a processing that appended a row and ran its dispatch loop:
\* failed is how the processing ends when the loop raised.
Dispatched(snaps2, alerts, log, failed) ==
  [snaps |-> snaps2, subs |-> alerts.subs,
   log |-> [log EXCEPT !.outcome = IF alerts.raised THEN failed ELSE "saved",
                       !.dispatch = alerts.dispatch]]

SearchKind(resp) == IF resp.kind = "ok" /\ resp.offers = <<>> THEN "empty" ELSE resp.kind

\* take_snapshot_for_watch after the search: append_snapshot, latest_snapshot
take_snapshot_for_watch(w, snaps, offer, t) ==
  Val(latest_snapshot(append_snapshot(snaps, w.id, Val(offer), t), w.id))

\* process_watch: take_snapshot_for_watch, then send_alerts_for_watch, all
\* inside try / except Exception.
process_watch(w, snaps, subs, t, resp, fault, mail) ==
  LET offer == search_best_offer_for_watch(resp)
      log(appended, outcome) ==
        LogRec("process_watch", w.id, SearchKind(resp), 0, offer, None, appended, outcome, {})
      snaps2 == append_snapshot(snaps, w.id, Val(offer), t)
  IN IF offer = None THEN Unchanged(snaps, subs, log(None, "skipped"))
     ELSE IF fault = "append" THEN Unchanged(snaps, subs, log(None, "error"))
     ELSE Dispatched(snaps2,
                     send_alerts_for_watch(subs, snaps2, w.id,
                                           take_snapshot_for_watch(w, snaps, offer, t),
                                           t, fault, mail),
                     log(offer, "saved"), "error")

\* process_watch while another process (snapshot_window.py, a second
\* scheduler) appends other for the same watch after latest_snapshot has
\* returned: should_send_email's is_new_low reads the table again.
process_watch_beside(w, snaps, subs, t, resp, other, mail) ==
  LET offer == search_best_offer_for_watch(resp)
      log(appended, outcome) ==
        LogRec("process_watch", w.id, SearchKind(resp), 0, offer, None, appended, outcome, {})
      snaps2 == append_snapshot(snaps, w.id, Val(offer), t)
      snaps3 == IF other = None THEN snaps2
                ELSE append_snapshot(snaps2, w.id, Val(other), t)
  IN IF offer = None THEN Unchanged(snaps, subs, log(None, "skipped"))
     ELSE Dispatched(snaps3,
                     send_alerts_for_watch(subs, snaps3, w.id,
                                           take_snapshot_for_watch(w, snaps, offer, t),
                                           t, "none", mail),
                     log(offer, "saved"), "error")

\* ---------------------------------------------------- snapshot_all_watches
\* The dispatch loop of snapshot_single_watch (lines 112-142).
\* "already emailed <= this price; skipping" is the negation of this
sa_wants(sub, latest_cents) ==
  ~(sub.last_emailed_cents # None /\ latest_cents >= Val(sub.last_emailed_cents))

sa_send_alerts(subs, snaps, wid, latest_cents, seen_utc, t, fault, mail) ==
  dispatch_loop(subs, Range(get_subscriptions_for_watch(subs, wid)),
                {s \in Range(get_subscriptions_for_watch(subs, wid)) :
                   sa_wants(s, latest_cents)},
                is_new_low(snaps, wid), latest_cents, seen_utc, t, fault, mail)

\* snapshot_single_watch(client, w).  trace holds the responses to the
\* price_confirm calls made on the offers sorted by advertised total.
snapshot_single_watch(w, snaps, subs, t, resp, trace, fault, mail) ==
  LET calls == Len(trace)
      final == trace[calls]
      snaps2 == append_snapshot(snaps, w.id, final.total, t)
      advertised == Some(sorted(resp.offers)[calls])
      log(n, adv, confirmed, outcome) ==
        Confirming(LogRec("snapshot_single_watch", w.id, SearchKind(resp), n, adv,
                          confirmed, confirmed, outcome, {}),
                   Len(resp.offers), IF n = 0 THEN "none" ELSE final.kind)
      same(n, adv, outcome) ==
        Unchanged(snaps, subs, [log(n, adv, None, outcome) EXCEPT !.appended = None])
  IN IF SearchKind(resp) # "ok" THEN same(0, None, "skipped")
     ELSE IF final.kind = "exception" THEN same(calls, advertised, "raised")
     ELSE IF final.kind # "ok" THEN same(calls, advertised, "skipped")
     ELSE IF fault = "append"
       THEN Unchanged(snaps, subs,
                      [log(calls, advertised, Some(final.total), "raised")
                         EXCEPT !.appended = None])
     ELSE Dispatched(snaps2,
                     sa_send_alerts(subs, snaps2, w.id,
                                    Val(history_min_median(snaps2, w.id)).latest_cents,
                                    utcnow_aware(t), t, fault, mail),
                     log(calls, advertised, Some(final.total), "saved"), "raised")

\* ------------------------------------------------------------------- API
ensure_watch(ws, seq, key) ==
  LET found == {w \in ws : w.route = key.route /\ w.depart_date = key.depart_date}
  IN IF found # {}
       THEN [watches |-> ws, seq |-> seq, id |-> (CHOOSE w \in found : TRUE).id]
     ELSE [watches |-> ws \cup {[id |-> seq + 1, route |-> key.route,
                                 depart_date |-> key.depart_date]},
           seq |-> seq + 1, id |-> seq + 1]

ensure_subscription(subs, seq, wid, email) ==
  LET found == {s \in subs : s.watch_id = wid /\ s.email = email}
  IN IF found # {}
       THEN [subs |-> subs, seq |-> seq, id |-> (CHOOSE s \in found : TRUE).id]
     ELSE [subs |-> subs \cup {[id |-> seq + 1, watch_id |-> wid, email |-> email,
                                last_emailed_cents |-> None,
                                last_emailed_seen_utc |-> None]},
           seq |-> seq + 1, id |-> seq + 1]

\* ----------------------------------------------------------------- state
RECURSIVE WatchesCreated(_)
\* the store after POST /watches for each key of the sequence
WatchesCreated(keys) ==
  IF keys = <<>> THEN [watches |-> {}, seq |-> 0]
  ELSE LET before == WatchesCreated(SubSeq(keys, 1, Len(keys) - 1))
       IN ensure_watch(before.watches, before.seq, keys[Len(keys)])

RECURSIVE Subscribed(_, _)
\* the store after POST /subscriptions for the pairs of the sequence in picked
Subscribed(pairs, picked) ==
  IF pairs = <<>> THEN [subs |-> {}, seq |-> 0]
  ELSE LET n == Len(pairs)
           before == Subscribed(SubSeq(pairs, 1, n - 1), picked)
       IN IF n \in picked
            THEN ensure_subscription(before.subs, before.seq, pairs[n].watch_id,
                                     pairs[n].email)
          ELSE before

\* The store after the watches were created and some of the pairs
\* subscribed, before the first run.
Init ==
  /\ watches = WatchesCreated(WatchKeys).watches
  /\ watch_seq = WatchesCreated(WatchKeys).seq
  /\ \E picked \in SUBSET (1..Len(SubPairs)) :
       /\ Cardinality(picked) <= MaxSubs
       /\ picked # {} => 1 \in picked
       /\ subscriptions = Subscribed(SubPairs, picked).subs
       /\ sub_seq = Subscribed(SubPairs, picked).seq
  /\ fare_snapshots = <<>>
  /\ now = 0
  /\ pc = "idle"
  /\ todo = <<>>
  /\ runlog = <<>>
  /\ last = None
  /\ mailed = [i \in {s.id : s \in subscriptions} |-> <<>>]
  /\ token = None
  /\ req = "idle"
  /\ attempt = 0
  /\ backoff = 0
  /\ http_log = <<>>
  /\ error = None
  /\ inflight = {}
  /\ ret = None
  /\ issued = {}

\* Time passes between runs; a run is short against a step of the clock.
Tick ==
  /\ pc = "idle"
  /\ last = None
  /\ now + TickHours <= MaxTicks * TickHours
  /\ now' = now + TickHours
  /\ UNCHANGED <<client, store_calls, db, pc, todo, runlog, last, mailed>>

\* The entry of the watch just processed goes to the output (log.info,
\* print); the caller goes on after that.
RunEntry(log) ==
  [watch |-> log.watch, search |-> log.search, appended |-> log.appended # None,
   outcome |-> log.outcome]

write_log ==
  /\ last # None
  /\ last' = None
  /\ runlog' = IF pc = "running" THEN Append(runlog, RunEntry(Val(last))) ELSE runlog
  /\ UNCHANGED <<client, store_calls, db, now, pc, todo, mailed>>

\* run_scheduler.main up to its loop
scheduler_start ==
  /\ pc = "idle"
  /\ last = None
  /\ pc' = "running"
  /\ todo' = fetch_watches_with_subscribers(watches, subscriptions)
  /\ runlog' = <<>>
  /\ UNCHANGED <<client, store_calls, db, now, last, mailed>>

\* The inputs that can make a difference: the store can raise in a call
\* that is made, the mailer's outcome counts when send_email is called.
FaultChoices(appends, sends) ==
  {"none"} \cup (IF appends THEN {"append"} ELSE {}) \cup (IF sends THEN {"update"} ELSE {})
MailChoices(sends, fault) == IF sends /\ fault # "append" THEN MailOutcomes ELSE {"sent"}
Sends(log) == \E d \in log.dispatch : d.sent

\* variant: the loop left after a watch whose search failed
rest_of_run_abort(ws, log) ==
  IF log.search \in {"http_error", "exception"} THEN <<>> ELSE Tail(ws)

\* "for watch in watches: process_watch(watch)": process_watch lets no
\* exception out, the loop goes on to the next watch whatever the entry says.
rest_of_run(ws, log) == Tail(ws)

\* run_scheduler.main: one turn of "for watch in watches: process_watch(watch)"
scheduler_step(cap) ==
  /\ pc = "running"
  /\ last = None
  /\ todo # <<>>
  /\ \E resp \in SearchResponses :
       \E plain \in {process_watch(Head(todo), fare_snapshots, subscriptions, now,
                                   resp, "none", "sent")} :
         /\ Len(plain.snaps) <= cap
         /\ \E fault \in FaultChoices(plain.log.appended # None, Sends(plain.log)) :
              \E mail \in MailChoices(Sends(plain.log), fault) :
                \E r \in {process_watch(Head(todo), fare_snapshots, subscriptions, now,
                                        resp, fault, mail)} :
                  /\ fare_snapshots' = r.snaps
                  /\ subscriptions' = r.subs
                  /\ last' = Some(r.log)
                  /\ mailed' = Mailed(mailed, r.log.dispatch)
                  /\ todo' = rest_of_run(todo, r.log)
  /\ UNCHANGED <<client, store_calls, watches, watch_seq, sub_seq, now, pc, runlog>>

\* one turn of the loop of main with another writer on the same database
scheduler_step_beside(cap) ==
  /\ pc = "running"
  /\ last = None
  /\ todo # <<>>
  /\ \E resp \in SearchResponses, other \in {None} \cup {Some(p) : p \in Prices} :
       \E plain \in {process_watch_beside(Head(todo), fare_snapshots, subscriptions, now,
                                          resp, other, "sent")} :
         /\ Len(plain.snaps) <= cap
         /\ \E mail \in MailChoices(Sends(plain.log), "none") :
              \E r \in {process_watch_beside(Head(todo), fare_snapshots, subscriptions,
                                             now, resp, other, mail)} :
                /\ fare_snapshots' = r.snaps
                /\ subscriptions' = r.subs
                /\ last' = Some(r.log)
                /\ mailed' = Mailed(mailed, r.log.dispatch)
                /\ todo' = rest_of_run(todo, r.log)
  /\ UNCHANGED <<client, store_calls, watches, watch_seq, sub_seq, now, pc, runlog>>

\* run_scheduler.main: the loop is over
scheduler_finish ==
  /\ pc = "running"
  /\ last = None
  /\ todo = <<>>
  /\ pc' = "idle"
  /\ runlog' = <<>>
  /\ UNCHANGED <<client, store_calls, db, now, todo, last, mailed>>

\* list_watches: the SELECT has a comma before FROM, sqlite3 raises
\* OperationalError (near "FROM": syntax error) on every call.
list_watches(ws) == [raised |-> TRUE, rows |-> <<>>]

\* snapshot_all_watches.main: AmadeusClient(), then list_watches(), whose
\* exception nothing catches: the script ends before its loop.
snapshot_all_main ==
  /\ pc = "idle"
  /\ last = None
  /\ list_watches(watches).raised
  /\ last' = Some(LogRec("snapshot_all_watches.main", 0, "none", 0, None, None, None,
                         "raised", {}))
  /\ UNCHANGED <<client, store_calls, db, now, pc, todo, runlog, mailed>>

TraceChoices(resp) ==
  IF resp.kind # "ok" \/ resp.offers = <<>> THEN {<<>>}
  ELSE ConfirmTraces(Len(resp.offers))

\* snapshot_single_watch(client, w) called on a watch row
call_snapshot_single_watch(w, cap, responses) ==
  /\ pc = "idle"
  /\ last = None
  /\ \E resp \in responses :
       \E trace \in TraceChoices(resp) :
         \E plain \in {snapshot_single_watch(w, fare_snapshots, subscriptions, now,
                                               resp, trace, "none", "sent")} :
           /\ Len(plain.snaps) <= cap
           /\ \E fault \in FaultChoices(plain.log.appended # None, Sends(plain.log)) :
                \E mail \in MailChoices(Sends(plain.log), fault) :
                  \E r \in {snapshot_single_watch(w, fare_snapshots, subscriptions, now,
                                                   resp, trace, fault, mail)} :
                    /\ fare_snapshots' = r.snaps
                    /\ subscriptions' = r.subs
                    /\ last' = Some(r.log)
                    /\ mailed' = Mailed(mailed, r.log.dispatch)
  /\ UNCHANGED <<client, store_calls, watches, watch_seq, sub_seq, now, pc, todo, runlog>>

\* The scripts as they are started: run_scheduler.py and
\* snapshot_all_watches.py, over a history of at most MaxSnaps snapshots.
Next ==
  \/ Tick
  \/ write_log
  \/ scheduler_start
  \/ scheduler_step(MaxSnaps)
  \/ scheduler_finish
  \/ snapshot_all_main

Spec == Init /\ [][Next]_vars

\* The same, and snapshot_single_watch called on any watch row (its caller
\* main never gets to call it), over at most MaxCallSnaps snapshots.
NextSingleWatch ==
  \/ Tick
  \/ write_log
  \/ scheduler_start
  \/ scheduler_step(MaxCallSnaps)
  \/ scheduler_finish
  \/ snapshot_all_main
  \/ \E w \in watches : call_snapshot_single_watch(w, MaxCallSnaps, SearchResponses)

SpecSingleWatch == Init /\ [][NextSingleWatch]_vars

\* run_scheduler.py while other processes write to the same database file
\* (SCHEMA sets journal_mode=WAL).
NextBeside ==
  \/ Tick
  \/ write_log
  \/ scheduler_start
  \/ scheduler_step_beside(MaxSnaps)
  \/ scheduler_finish

SpecBeside == Init /\ [][NextBeside]_vars

\* The responses to the successive price_confirm calls of try_price_confirm
\* on n candidates: the loop goes on after every AmadeusHTTPError.
TryTraces(n) ==
  UNION {{Append(q, x) :
            q \in {r \in SeqsUpTo(ConfirmHTTPError, k - 1) : Len(r) = k - 1},
            x \in {y \in ConfirmOk \cup ConfirmFail : y \in ConfirmHTTPError => k = n}} :
         k \in 1..n}

\* AmadeusClient.try_price_confirm(offers, max_candidates): the entry of the
\* log for the call.  No offers: RuntimeError("No offers to confirm").
try_price_confirm(offers, max_candidates, trace) ==
  LET n == IF Len(offers) < max_candidates THEN Len(offers) ELSE max_candidates
      calls == Len(trace)
      log(adv, confirmed, outcome, kind) ==
        Confirming(LogRec("try_price_confirm", 0, "ok", calls, adv, confirmed, None,
                          outcome, {}),
                   Len(offers), kind)
  IN IF n = 0 THEN log(None, None, "raised", "none")
     ELSE IF trace[calls].kind = "ok"
       THEN log(Some(SubSeq(sorted(offers), 1, n)[calls]), Some(trace[calls].total),
                "returned", "ok")
     ELSE log(Some(SubSeq(sorted(offers), 1, n)[calls]), None, "raised", trace[calls].kind)

\* ama.try_price_confirm(offers, max_candidates=MAX_CANDIDATES)
call_try_price_confirm ==
  /\ pc = "idle"
  /\ last = None
  /\ \E offers \in SeqsUpTo(Prices, MaxCandOffers) :
       \E trace \in (IF offers = <<>> THEN {<<>>}
                     ELSE TryTraces(IF Len(offers) < MAX_CANDIDATES THEN Len(offers)
                                    ELSE MAX_CANDIDATES)) :
         last' = Some(try_price_confirm(offers, MAX_CANDIDATES, trace))
  /\ UNCHANGED <<client, store_calls, db, now, pc, todo, runlog, mailed>>

\* The price confirmations: snapshot_single_watch and try_price_confirm on
\* searches that return up to MaxCandOffers offers.
NextConfirm ==
  \/ write_log
  \/ call_try_price_confirm
  \/ \E w \in watches :
       call_snapshot_single_watch(w, MaxCallSnaps, SearchResponsesUpTo(MaxCandOffers))

SpecConfirm == Init /\ [][NextConfirm]_vars

\* The rows a history is made of: any watch, any second of the clock, any
\* price.
SnapshotRows ==
  {[watch_id |-> w, seen_utc |-> utcnow_naive(t), price_cents |-> p] :
     w \in {1, 2}, t \in 0..MaxStamp, p \in Prices}

\* The store holding any history of at most MaxHist rows, in rowid order.
InitStats ==
  /\ watches = WatchesCreated(WatchKeys).watches
  /\ watch_seq = WatchesCreated(WatchKeys).seq
  /\ subscriptions = {}
  /\ sub_seq = 0
  /\ fare_snapshots \in SeqsUpTo(SnapshotRows, MaxHist)
  /\ now = 0
  /\ pc = "idle"
  /\ todo = <<>>
  /\ runlog = <<>>
  /\ last = None
  /\ mailed = <<>>
  /\ token = None
  /\ req = "idle"
  /\ attempt = 0
  /\ backoff = 0
  /\ http_log = <<>>
  /\ error = None
  /\ inflight = {}
  /\ ret = None
  /\ issued = {}

Returned(fn, wid, value) == Some([fn |-> fn, watch |-> wid, value |-> value])

call_history_min_median(wid) ==
  /\ ret' = Returned("history_min_median", wid, history_min_median(fare_snapshots, wid))
  /\ UNCHANGED <<db, pipeline, client, inflight, issued>>

call_latest_snapshot(wid) ==
  /\ ret' = Returned("latest_snapshot", wid, latest_snapshot(fare_snapshots, wid))
  /\ UNCHANGED <<db, pipeline, client, inflight, issued>>

call_is_new_low(wid) ==
  /\ ret' = Returned("is_new_low", wid, is_new_low(fare_snapshots, wid))
  /\ UNCHANGED <<db, pipeline, client, inflight, issued>>

\* The statistics functions called on any stored history.
NextStats ==
  \/ \E w \in watches : call_history_min_median(w.id)
  \/ \E w \in watches : call_latest_snapshot(w.id)
  \/ \E w \in watches : call_is_new_low(w.id)

SpecStats == InitStats /\ [][NextStats]_vars

\* ------------------------------------------------- the store under callers
\* The callers of the store: API requests and scripts, each on a connection
\* of its own.  The keys they ask for, the ids and addresses they pass.
Callers == 1..MaxCallers
StoreKeys == Range(WatchKeys)
WatchIds == 1..MaxWatchIds
Emails == {"a@x"}

WithKey(ws, key) == {w \in ws : w.route = key.route /\ w.depart_date = key.depart_date}

\* variant: INSERT INTO watches without the unique index
insert_unchecked(ws, seq, key) ==
  [raised |-> FALSE, seq |-> seq + 1,
   watches |-> ws \cup {[id |-> seq + 1, route |-> key.route,
                         depart_date |-> key.depart_date]}]

\* INSERT INTO watches under uq_watch_route_date: a row with the key makes
\* the statement raise sqlite3.IntegrityError and nothing is stored
insert_watch(ws, seq, key) ==
  IF WithKey(ws, key) # {}
    THEN [raised |-> TRUE, seq |-> seq, watches |-> ws]
  ELSE [raised |-> FALSE, seq |-> seq + 1,
        watches |-> ws \cup {[id |-> seq + 1, route |-> key.route,
                              depart_date |-> key.depart_date]}]

\* a call that ended by raising returns no value
Raised(fn, arg) == Returned(fn, arg, None)

Call(c, key) == [caller |-> c, key |-> key]
Busy(c) == \E call \in inflight : call.caller = c

\* The store before any request.
InitStore ==
  /\ watches = {}
  /\ watch_seq = 0
  /\ subscriptions = {}
  /\ sub_seq = 0
  /\ fare_snapshots = <<>>
  /\ now = 0
  /\ pc = "idle"
  /\ todo = <<>>
  /\ runlog = <<>>
  /\ last = None
  /\ mailed = <<>>
  /\ token = None
  /\ req = "idle"
  /\ attempt = 0
  /\ backoff = 0
  /\ http_log = <<>>
  /\ error = None
  /\ inflight = {}
  /\ ret = None
  /\ issued = {}

\* ensure_watch up to its SELECT: the id of the row found is returned,
\* otherwise the call goes on to its INSERT
ensure_watch_select(c, key) ==
  /\ ~Busy(c)
  /\ \E found \in {WithKey(watches, key)} :
       IF found # {}
         THEN \E w \in found :
                /\ ret' = Returned("ensure_watch", key, Some(w.id))
                /\ issued' = issued \cup {[key |-> key, id |-> w.id]}
                /\ UNCHANGED inflight
       ELSE /\ inflight' = inflight \cup {Call(c, key)}
            /\ UNCHANGED <<ret, issued>>
  /\ UNCHANGED <<db, pipeline, client>>

\* the INSERT of ensure_watch and the commit on leaving the connection
ensure_watch_insert(c) ==
  \E call \in inflight :
    /\ call.caller = c
    /\ WithKey(watches, call.key) = {} => watch_seq < MaxWatchIds
    /\ inflight' = inflight \ {call}
    /\ \E r \in {insert_watch(watches, watch_seq, call.key)} :
         /\ watches' = r.watches
         /\ watch_seq' = r.seq
         /\ IF r.raised
              THEN /\ ret' = Raised("ensure_watch", call.key)
                   /\ UNCHANGED issued
            ELSE /\ ret' = Returned("ensure_watch", call.key, Some(r.seq))
                 /\ issued' = issued \cup {[key |-> call.key, id |-> r.seq]}
    /\ UNCHANGED <<subscriptions, sub_seq, fare_snapshots, pipeline, client>>

\* add_watch: one INSERT and the commit
call_add_watch(c, key) ==
  /\ ~Busy(c)
  /\ WithKey(watches, key) = {} => watch_seq < MaxWatchIds
  /\ \E r \in {insert_watch(watches, watch_seq, key)} :
       /\ watches' = r.watches
       /\ watch_seq' = r.seq
       /\ ret' = IF r.raised THEN Raised("add_watch", key)
                 ELSE Returned("add_watch", key, Some(r.seq))
  /\ UNCHANGED <<subscriptions, sub_seq, fare_snapshots, pipeline, client,
                 inflight, issued>>

\* Callers creating watches, their calls interleaved.
NextWatches ==
  \/ \E c \in Callers, key \in StoreKeys : ensure_watch_select(c, key)
  \/ \E c \in Callers : ensure_watch_insert(c)
  \/ \E c \in Callers, key \in StoreKeys : call_add_watch(c, key)

SpecWatches == InitStore /\ [][NextWatches]_vars

\* "DELETE FROM watches WHERE id = ?": foreign keys are not enforced on
\* the connection, the rows of the other tables stay as they are
delete_watch_by_id(ws, wid) == {w \in ws : w.id # wid}

\* DELETE /watches/{watch_id}
call_delete_watch(wid) ==
  /\ inflight = {}
  /\ watches' = delete_watch_by_id(watches, wid)
  /\ UNCHANGED <<watch_seq, subscriptions, sub_seq, fare_snapshots, pipeline,
                 client, store_calls>>

\* POST /subscriptions with any watch id
call_ensure_subscription(wid, email) ==
  /\ inflight = {}
  /\ sub_seq < MaxSubs
  /\ \E r \in {ensure_subscription(subscriptions, sub_seq, wid, email)} :
       /\ subscriptions' = r.subs
       /\ sub_seq' = r.seq
  /\ UNCHANGED <<watches, watch_seq, fare_snapshots, pipeline, client,
                 store_calls>>

\* "DELETE FROM subscriptions WHERE watch_id = ? AND email = ?": SCHEMA
\* creates watch_subscriptions and no table subscriptions, the statement
\* raises sqlite3.OperationalError and no row is removed
delete_subscription(subs, wid, email) == [raised |-> TRUE, subs |-> subs]

\* DELETE /subscriptions: an exception of the store is answered with 500
call_unsubscribe(wid, email) ==
  /\ inflight = {}
  /\ \E r \in {delete_subscription(subscriptions, wid, email)} :
       /\ subscriptions' = r.subs
       /\ ret' = Returned("unsubscribe", [watch_id |-> wid, email |-> email],
                          Some(IF r.raised THEN 500 ELSE 200))
  /\ UNCHANGED <<watches, watch_seq, sub_seq, fare_snapshots, pipeline, client,
                 inflight, issued>>

\* append_snapshot with any watch id: the INSERT looks no watch up
call_append_snapshot(wid, price, cap) ==
  /\ inflight = {}
  /\ Len(fare_snapshots) < cap
  /\ fare_snapshots' = append_snapshot(fare_snapshots, wid, price, now)
  /\ UNCHANGED <<watches, watch_seq, subscriptions, sub_seq, pipeline, client,
                 store_calls>>

\* Watches created, subscribed to, recorded for and deleted.
NextStore ==
  \/ NextWatches
  \/ \E wid \in WatchIds : call_delete_watch(wid)
  \/ \E wid \in WatchIds, email \in Emails : call_ensure_subscription(wid, email)
  \/ \E wid \in WatchIds, price \in Prices : call_append_snapshot(wid, price, MaxStoreSnaps)
  \/ \E wid \in WatchIds, email \in Emails : call_unsubscribe(wid, email)

SpecStore == InitStore /\ [][NextStore]_vars

\* ------------------------------------------------ appends and statistics
\* Both watches created and no snapshot yet.
InitAppend ==
  /\ fare_snapshots = <<>>
  /\ InitStats

\* Snapshots appended as the clock goes on, statistics read in between.
NextAppend ==
  \/ Tick
  \/ \E w \in watches, price \in Prices : call_append_snapshot(w.id, price, MaxHist)
  \/ \E w \in watches : call_history_min_median(w.id)

SpecAppend == InitAppend /\ [][NextAppend]_vars

\* One client making requests, one after the other.
NextRequest == request_start \/ request_attempt \/ request_end

SpecRequest == Init /\ [][NextRequest]_vars

\* The loop of _request has no blocking statement but the bounded sleep and
\* the requests with their timeouts: a call that runs takes its next turn.
SpecRequestFair == SpecRequest /\ WF_vars(request_attempt)

\* ---------------------------------------------------------------- claims
Logged == last # None
L == Val(last)
Pipeline == {"process_watch", "snapshot_single_watch"}
\* the hours between the subscription's last alert and the dispatch d
Elapsed(d) == d.t - Val(d.prev_seen).t
RunOver == pc = "running" /\ todo = <<>> /\ last = None

\* C1: a subscription whose lastAlertedAt is set and less than
\* MIN_HOURS_BETWEEN_ALERTS old is sent no email, whatever the price.
C1_ThrottleSuppresses ==
  Logged => \A d \in L.dispatch :
    (d.prev_seen # None /\ Elapsed(d) < MIN_HOURS_BETWEEN_ALERTS) => ~d.sent

\* C2: when a watch's processing completes, every subscription of the watch
\* with lastAlertedPrice set, for which the snapshot is a new low, strictly
\* below lastAlertedPrice, and the cooldown has elapsed, was sent an email
\* and has lastAlertedPrice equal to the snapshot price.
C2_SendAfterCooldown ==
  (Logged /\ L.via \in Pipeline /\ L.outcome = "saved") =>
    \A s \in subscriptions : s.watch_id = L.watch =>
      \E d \in L.dispatch :
        /\ d.sub = s.id
        /\ (/\ d.new_low
            /\ d.prev_cents # None /\ d.price < Val(d.prev_cents)
            /\ d.prev_seen # None /\ Elapsed(d) >= MIN_HOURS_BETWEEN_ALERTS)
             => (d.sent /\ s.last_emailed_cents = Some(d.price)
                        /\ Some(d.price) = L.appended)

C2_Witness ==
  /\ Logged /\ L.via = "process_watch" /\ L.outcome = "saved"
  /\ \E d \in L.dispatch :
       /\ d.new_low /\ d.prev_cents = Some(2) /\ d.price = 1
       /\ d.prev_seen # None /\ Val(d.prev_seen).aware
       /\ Elapsed(d) >= MIN_HOURS_BETWEEN_ALERTS
       /\ d.sent /\ d.delivered
       /\ \E s \in subscriptions : s.id = d.sub /\ s.last_emailed_cents = Some(1)

\* C3: no email is sent for a watch unless the snapshot just appended is a
\* new low for the watch (at least 2 snapshots, latest <= minimum).
C3_NewLowGate ==
  Logged => \A d \in L.dispatch : d.sent => d.new_low

\* C4: a subscription with lastAlertedPrice set is sent an email only for a
\* price strictly below lastAlertedPrice.
C4_StrictImprovement ==
  Logged => \A d \in L.dispatch :
    (d.sent /\ d.prev_cents # None) => d.price < Val(d.prev_cents)

\* a new low at exactly lastAlertedPrice, the cooldown over: no send
C4_Witness ==
  /\ Logged /\ L.via = "process_watch" /\ L.outcome = "saved"
  /\ \E d \in L.dispatch :
       /\ d.new_low /\ d.prev_cents # None /\ d.price = Val(d.prev_cents)
       /\ Elapsed(d) >= MIN_HOURS_BETWEEN_ALERTS
       /\ ~d.sent /\ ~d.updated

StrictlyDecreasing(q) == \A i \in 1..Len(q) : \A j \in 1..Len(q) : i < j => q[j].price < q[i].price

LastOf(subs, i) == (CHOOSE s \in subs : s.id = i).last_emailed_cents

C6_UpdateOnlyAfterSuccessfulSend ==
  Logged => \A d \in L.dispatch : d.updated => d.delivered

SearchFailed(e) == e.search \in {"http_error", "exception"}

\* C7: a failed search ends the watch's processing as a skip, without an
\* exception; when a run is over every watch fetched has been processed, in
\* order, and every watch whose search returned offers and whose store did
\* not raise has its snapshot, whatever happened to the watches before it.
C7_SearchFailureIsolated ==
  /\ (Logged /\ L.via \in Pipeline /\ SearchFailed(L)) =>
       (L.outcome = "skipped" /\ L.appended = None)
  /\ pc = "running" =>
       \A j \in 1..Len(runlog) :
         (runlog[j].search = "ok" /\ runlog[j].outcome # "error") => runlog[j].appended
  /\ RunOver =>
       [j \in 1..Len(runlog) |-> runlog[j].watch]
         = [j \in 1..Len(fetch_watches_with_subscribers(watches, subscriptions)) |->
              fetch_watches_with_subscribers(watches, subscriptions)[j].id]

C7_Witness ==
  /\ RunOver
  /\ Len(runlog) = 2
  /\ SearchFailed(runlog[1]) /\ runlog[2].search = "ok" /\ runlog[2].appended
  /\ \E i \in 1..Len(fare_snapshots) : fare_snapshots[i].watch_id = runlog[2].watch

\* C8: no failure inside one watch's processing leaves that processing as
\* an exception.
C8_FailureCaught ==
  (Logged /\ L.via \in Pipeline) => L.outcome # "raised"

\* C9: every snapshot appended follows a successful price_confirm in the
\* same processing and stores the confirmed price.
C9_ConfirmedBeforeAppend ==
  (Logged /\ L.appended # None) =>
    (L.confirm_calls >= 1 /\ L.confirmed # None /\ L.appended = L.confirmed)

HasSubscription(wid) == \E s \in subscriptions : s.watch_id = wid

DepartDate(wid) == (CHOOSE w \in watches : w.id = wid).depart_date

\* C11: the price source is called, a snapshot appended and an alert sent
\* only for watches whose departure date is today or later.
C11_OnlyFutureWatches ==
  (Logged /\ L.via \in Pipeline /\ L.search # "none") => DepartDate(L.watch) >= today(now)


\* C12: price_confirm is tried on the offers in ascending order of the
\* advertised total, on at most MAX_CANDIDATES of them, and never after a
\* confirmation that succeeded.
C12_BoundedConfirmation ==
  (Logged /\ L.confirm_calls > 0) =>
    /\ L.confirm_calls <= MAX_CANDIDATES
    /\ L.confirm_calls <= L.offers
    /\ L.confirmed # None => L.confirm = "ok"


\* the number of offers a processing may try to confirm
Candidates(e) ==
  IF e.via = "try_price_confirm" /\ e.offers > MAX_CANDIDATES THEN MAX_CANDIDATES
  ELSE e.offers

\* C13: a processing ends on a client-error rejection of an offer (400 or
\* another 4xx) only when that offer was its last candidate: after a
\* rejection of an earlier candidate the next cheapest is tried.
C13_RejectionTriesNext ==
  (Logged /\ L.confirm \in {"http400", "http4xx"}) => L.confirm_calls = Candidates(L)


RequestsIn(log) == SelectSeq(log, LAMBDA e : e.kind = "request")
SleepsIn(log) == SelectSeq(log, LAMBDA e : e.kind = "sleep")
RECURSIVE Pow2(_)
Pow2(k) == IF k = 0 THEN 1 ELSE 2 * Pow2(k - 1)
Is5xx(status) == 500 <= status /\ status < 600
Ended == req \in {"returned", "raised"}

\* the bounds of one _request call, in every state
C14_Bounds ==
  /\ Len(RequestsIn(http_log)) <= max_retries
  /\ Len(SleepsIn(http_log)) <= max_retries - 1
  /\ \A k \in 1..Len(SleepsIn(http_log)) :
       SleepsIn(http_log)[k].delay = initial_backoff * Pow2(k - 1)
  /\ \A i \in 1..Len(http_log) :
       http_log[i].kind = "sleep" =>
         i > 1 /\ http_log[i - 1].kind = "request" /\ Is5xx(http_log[i - 1].status)
  /\ req = "returned" =>
       error = None /\ http_log[Len(http_log)].kind = "request"
                    /\ http_log[Len(http_log)].status = 200
  /\ req = "raised" => error # None
  /\ (req = "raised" /\ Val(error).kind = "AmadeusHTTPError" /\ Is5xx(Val(error).status)) =>
       Len(RequestsIn(http_log)) = max_retries

\* C14: a _request call makes at most max_retries requests, sleeps only
\* after a 5xx answer and each time twice as long as before, raises the 5xx
\* error only when max_retries requests were made, and always ends, with a
\* result or with an error.
C14_BoundedRetry == []C14_Bounds /\ (req = "running" ~> Ended)

C14_Witness ==
  /\ req = "raised" /\ error = AmadeusHTTPError(503)
  /\ Len(RequestsIn(http_log)) = max_retries
  /\ \A i \in 1..max_retries : RequestsIn(http_log)[i].status = 503
  /\ Len(SleepsIn(http_log)) = 2
  /\ SleepsIn(http_log)[2].delay = 2 * initial_backoff


Answered401(log) == {i \in 1..Len(log) : log[i].kind = "request" /\ log[i].status = 401}

\* C15: a _request call raises the 401 error only after one refresh of the
\* token and one more request, made with the new token, that was answered
\* 401 as well, wherever in the call the first 401 came.
C15_RefreshOnceThenSurface ==
  (req = "raised" /\ error = AmadeusHTTPError(401)) =>
    /\ Cardinality(Answered401(http_log)) = 2
    /\ \E i \in Answered401(http_log) :
         /\ i + 2 \in Answered401(http_log)
         /\ http_log[i + 1].kind = "token"
         /\ http_log[i + 2].token = http_log[i + 1].token
         /\ http_log[i + 2].token # http_log[i].token


\* the rowids of the snapshots of a watch
RowsOf(wid) == {i \in 1..Len(fare_snapshots) : fare_snapshots[i].watch_id = wid}
PriceAt(i) == fare_snapshots[i].price_cents
StampAt(i) == fare_snapshots[i].seen_utc.t
\* the snapshot with the greatest timestamp, the last inserted among those
NewestOf(wid) ==
  CHOOSE i \in RowsOf(wid) :
    \A j \in RowsOf(wid) : StampAt(j) < StampAt(i) \/ (StampAt(j) = StampAt(i) /\ j <= i)
LowestOf(wid) == CHOOSE p \in {PriceAt(i) : i \in RowsOf(wid)} :
                   \A i \in RowsOf(wid) : p <= PriceAt(i)
Called(fn) == ret # None /\ Val(ret).fn = fn
R == Val(ret)

\* C16: history_min_median returns None exactly for a watch without
\* snapshot; otherwise min_cents is the least price of the watch's snapshots
\* and latest_cents the price of the snapshot with the greatest timestamp,
\* the last inserted one among equals; latest_snapshot returns that row.
C16_MinAndLatest ==
  /\ Called("history_min_median") =>
       /\ R.value = None <=> RowsOf(R.watch) = {}
       /\ R.value # None =>
            /\ Val(R.value).min_cents = LowestOf(R.watch)
            /\ Val(R.value).latest_cents = PriceAt(NewestOf(R.watch))
            /\ Val(R.value).n = Cardinality(RowsOf(R.watch))
  /\ Called("latest_snapshot") =>
       /\ R.value = None <=> RowsOf(R.watch) = {}
       /\ R.value # None => Val(R.value) = fare_snapshots[NewestOf(R.watch)]

\* a history where the newest row is neither the last inserted nor the
\* cheapest, and two rows share the greatest timestamp
C16_Witness ==
  /\ Called("history_min_median") /\ R.value # None
  /\ Cardinality(RowsOf(R.watch)) = 3
  /\ NewestOf(R.watch) # Len(fare_snapshots)
  /\ \E i \in RowsOf(R.watch) : i # NewestOf(R.watch) /\ StampAt(i) = StampAt(NewestOf(R.watch))
                                  /\ PriceAt(i) # PriceAt(NewestOf(R.watch))
  /\ Val(R.value).latest_cents # Val(R.value).min_cents


\* the prices of a watch in ascending order, found without sorting: the
\* ascending sequence holding each price as often as the history does
Ascending(wid) ==
  CHOOSE s \in [1..Cardinality(RowsOf(wid)) -> Prices] :
    /\ \A i \in 1..(Len(s) - 1) : s[i] <= s[i + 1]
    /\ \A p \in Prices : Cardinality({i \in 1..Len(s) : s[i] = p})
                           = Cardinality({i \in RowsOf(wid) : PriceAt(i) = p})
Count(wid) == Cardinality(RowsOf(wid))

\* C17: for a non-empty history median_cents is the middle element of the
\* ascending prices when their count is odd, and the floor of the average
\* of the two middle elements when it is even.
C17_Median ==
  (Called("history_min_median") /\ R.value # None) =>
     /\ Count(R.watch) % 2 = 1 =>
          Val(R.value).median_cents = Ascending(R.watch)[(Count(R.watch) + 1) \div 2]
     /\ Count(R.watch) % 2 = 0 =>
          Val(R.value).median_cents =
            (Ascending(R.watch)[Count(R.watch) \div 2]
               + Ascending(R.watch)[(Count(R.watch) \div 2) + 1]) \div 2

\* four prices stored out of order whose two middle ones differ by one cent:
\* the average is not whole and is rounded down
C17_Witness ==
  /\ Called("history_min_median") /\ R.value # None
  /\ Count(R.watch) = 4
  /\ Ascending(R.watch)[2] + 1 = Ascending(R.watch)[3]
  /\ Val(R.value).median_cents = Ascending(R.watch)[2]
  /\ \E i, j \in RowsOf(R.watch) : i < j /\ PriceAt(i) > PriceAt(j)


\* C18: is_new_low classifies a watch as a new low exactly when the watch
\* has at least two snapshots and its latest price is at most every price
\* of its history, the latest included; with fewer than two snapshots it
\* returns none whatever the prices.
C18_NewLowIff ==
  Called("is_new_low") =>
    (R.value <=> /\ Count(R.watch) >= 2
                 /\ \A i \in RowsOf(R.watch) : PriceAt(NewestOf(R.watch)) <= PriceAt(i))

\* a new low reported for a latest price that only equals an older one,
\* the latest row not being the last one stored
C18_Witness ==
  /\ Called("is_new_low") /\ R.value
  /\ Count(R.watch) >= 2
  /\ NewestOf(R.watch) # Len(fare_snapshots)
  /\ \E i \in RowsOf(R.watch) : i # NewestOf(R.watch) /\ PriceAt(i) = PriceAt(NewestOf(R.watch))
  /\ \E i \in RowsOf(R.watch) : PriceAt(i) > PriceAt(NewestOf(R.watch))


\* C19: whatever the interleaving of ensure_watch and add_watch calls, the
\* table holds at most one watch per key, and the calls of ensure_watch
\* that returned for one key all returned the same id, the id of the one
\* row with that key.
C19_WatchUniqueness ==
  /\ \A a, b \in watches :
       (a.route = b.route /\ a.depart_date = b.depart_date) => a = b
  /\ \A a, b \in watches : a.id = b.id => a = b
  /\ \A x, y \in issued : x.key = y.key => x.id = y.id
  /\ \A x \in issued : \E w \in WithKey(watches, x.key) : w.id = x.id

\* two callers raced for one key: both found no row, one stored it and got
\* its id, the INSERT of the other has just been refused; one row per key
C19_Witness ==
  /\ Called("ensure_watch") /\ R.value = None
  /\ Cardinality(WithKey(watches, R.watch)) = 1
  /\ \E x \in issued : x.key = R.watch
  /\ Cardinality(watches) = 2


\* C20: every stored snapshot and every stored subscription references a
\* watch that exists.
C20_ReferencesExist ==
  /\ \A i \in 1..Len(fare_snapshots) : \E w \in watches : w.id = fare_snapshots[i].watch_id
  /\ \A s \in subscriptions : \E w \in watches : w.id = s.watch_id


\* C21: append_snapshot for a watch id that does not exist inserts no
\* snapshot row: every step that adds a row to fare_snapshots adds it for a
\* watch that is in the table.
C21_AppendNeedsWatch ==
  [][Len(fare_snapshots') > Len(fare_snapshots) =>
       \E w \in watches : w.id = fare_snapshots'[Len(fare_snapshots')].watch_id]_vars


\* C22: snapshots are append-only and never deduplicated: a step that
\* changes the snapshot table adds exactly one row at the end and leaves
\* every row that was there as it was, and the statistics computed after
\* any appends, equal rows included, are the minimum, the median and the
\* latest of all the rows of the watch.
C22_AppendOnly ==
  [][/\ fare_snapshots' # fare_snapshots =>
          /\ Len(fare_snapshots') = Len(fare_snapshots) + 1
          /\ SubSeq(fare_snapshots', 1, Len(fare_snapshots)) = fare_snapshots
     /\ \A w \in watches :
          call_history_min_median(w.id) => (C16_MinAndLatest /\ C17_Median)']_vars

\* the same offer stored twice at one moment and a third row: three rows
\* counted by the statistics read afterwards
C22_Witness ==
  /\ Called("history_min_median") /\ R.value # None
  /\ Count(R.watch) = 3 /\ Val(R.value).n = 3
  /\ \E i, j \in RowsOf(R.watch) : i < j /\ fare_snapshots[i] = fare_snapshots[j]
  /\ \E i \in RowsOf(R.watch) : PriceAt(i) # Val(R.value).min_cents


\* C23: when an unsubscribe of a (watch, email) pair is over, no
\* subscription row exists for the pair, and the other subscription rows
\* are as they were.
C23_Unsubscribed ==
  [][\A wid \in WatchIds, email \in Emails :
       call_unsubscribe(wid, email) =>
         /\ ~\E s \in subscriptions' : s.watch_id = wid /\ s.email = email
         /\ \A s \in subscriptions :
              (s.watch_id # wid \/ s.email # email) => s \in subscriptions']_vars


\* the subscriptions of a watch, and the scheduler having just appended
\* the n-th snapshot of a watch
SubsOf(wid) == {s \in subscriptions : s.watch_id = wid}
Appended(n) ==
  /\ Logged /\ L.via = "process_watch" /\ L.appended # None
  /\ Count(L.watch) = n

\* C24: run_scheduler on a watch without snapshots whose subscribers were
\* never alerted.  After the first append there is one snapshot and no new
\* low: nobody is sent an email.  After a second, lower price is appended
\* there are two snapshots, the minimum is the new price, the new low
\* fires, and when the run saved normally every such subscriber was sent
\* one email, has received no other, and has the new price as
\* last_emailed_cents.
C24_FirstThenLower ==
  /\ Appended(1) => \A d \in L.dispatch : ~d.new_low /\ ~d.sent /\ ~d.updated
  /\ (/\ Appended(2) /\ L.outcome = "saved"
      /\ \A i \in RowsOf(L.watch) : i < Len(fare_snapshots) => PriceAt(i) > Val(L.appended)) =>
       /\ LowestOf(L.watch) = Val(L.appended)
       /\ PriceAt(NewestOf(L.watch)) = Val(L.appended)
       /\ \A s \in SubsOf(L.watch) : \E d \in L.dispatch : d.sub = s.id
       /\ \A d \in L.dispatch :
            (d.prev_cents = None /\ d.prev_seen = None) =>
              /\ d.new_low /\ d.sent /\ d.updated /\ d.price = Val(L.appended)
              /\ Len(mailed[d.sub]) = (IF d.delivered THEN 1 ELSE 0)
              /\ \A s \in SubsOf(L.watch) :
                   s.id = d.sub => s.last_emailed_cents = L.appended

\* one subscriber; the price 2 was appended, then the price 1, and the
\* subscriber got the one email, for the price 1
C24_Witness ==
  /\ Appended(2) /\ L.outcome = "saved" /\ L.appended = Some(1)
  /\ \E i \in RowsOf(L.watch) : PriceAt(i) = 2
  /\ Cardinality(SubsOf(L.watch)) = 1
  /\ \A s \in SubsOf(L.watch) :
       /\ s.last_emailed_cents = Some(1)
       /\ mailed[s.id] = <<[price |-> 1, updated |-> TRUE]>>
  /\ \A d \in L.dispatch : d.prev_cents = None /\ d.delivered


IsClientError(status) == 400 <= status /\ status < 500 /\ status # 401

\* C26: a request answered with a client error other than 401 is the last
\* thing its _request call does: the call has raised AmadeusHTTPError with
\* that status, no sleep and no request follows; when it was the answer to
\* the first request, the call made that one request and never slept.
C26_ClientErrorSurfaces ==
  \A i \in 1..Len(http_log) :
    (http_log[i].kind = "request" /\ IsClientError(http_log[i].status)) =>
      /\ i = Len(http_log)
      /\ req \in {"raised", "idle"} /\ error = AmadeusHTTPError(http_log[i].status)
      /\ (\A j \in 1..(i - 1) : http_log[j].kind # "request") =>
           Len(RequestsIn(http_log)) = 1 /\ SleepsIn(http_log) = <<>>

\* the first request of a call, made with a token in hand, answered 404
C26_Witness ==
  /\ req = "raised" /\ error = AmadeusHTTPError(404)
  /\ http_log = <<Sent(404, token)>>


\* what the processing of one watch, logged as e, may have done when the
\* table had n rows before it and has m after it
OneSnapshotOrSkip(e, n, m) ==
  /\ m = n + (IF e.appended # None THEN 1 ELSE 0)
  /\ e.search = "empty" => e.appended = None /\ e.outcome = "skipped" /\ ~Sends(e)
  /\ (e.search = "ok" /\ e.confirm_calls > 0) =>
       \/ /\ e.confirm = "ok"
          /\ e.appended # None \/ e.outcome \in {"raised", "error"}
       \/ /\ e.confirm # "ok"
          /\ e.confirm_calls = Candidates(e)
          /\ e.appended = None /\ e.outcome = "skipped" /\ ~Sends(e)

\* C27: the processing of one watch appends one snapshot when a candidate
\* was confirmed (unless the store raises), and none when the search gave
\* no offer or when every candidate was tried and failed confirmation; it
\* then ends as skipped, not as an error, and sends no alert.  No
\* processing appends two snapshots.
C27_OneSnapshotOrSkip ==
  [][(last = None /\ last' # None /\ Val(last').via \in Pipeline) =>
       OneSnapshotOrSkip(Val(last'), Len(fare_snapshots), Len(fare_snapshots'))]_vars


\* C28: the price compared with last_emailed_cents, put in the email and
\* written to last_emailed_cents is the latest price of the statistics the
\* new-low classification was made on: after a processing that sent an
\* email, that price is the price of the newest snapshot of the watch, and
\* it is at most every price of the watch.
C28_SameStats ==
  (Logged /\ L.via = "process_watch") =>
    \A d \in L.dispatch :
      d.sent =>
        /\ d.new_low
        /\ d.price = PriceAt(NewestOf(L.watch))
        /\ \A i \in RowsOf(L.watch) : d.price <= PriceAt(i)


\* the rows of fare_snapshots' after the first n
AddedRows(n) == {fare_snapshots'[i] : i \in (n + 1)..Len(fare_snapshots')}

\* C29: the processing of one watch keeps every snapshot there was, adds
\* snapshots only for that watch, keeps the watches and the set of
\* subscriptions, and changes only subscription rows of that watch for
\* which the dispatch wrote last_emailed: the rows of other watches and of
\* other subscribers are unchanged.
C29_Frame ==
  [][(last = None /\ last' # None /\ Val(last').via \in Pipeline) =>
       /\ Len(fare_snapshots') >= Len(fare_snapshots)
       /\ SubSeq(fare_snapshots', 1, Len(fare_snapshots)) = fare_snapshots
       /\ \A r \in AddedRows(Len(fare_snapshots)) : r.watch_id = Val(last').watch
       /\ watches' = watches
       /\ {s.id : s \in subscriptions'} = {s.id : s \in subscriptions}
       /\ \A s \in subscriptions :
            s \notin subscriptions' =>
              /\ s.watch_id = Val(last').watch
              /\ \E d \in Val(last').dispatch : d.sub = s.id /\ d.updated]_vars

\* a watch was processed and a subscription of it written while another
\* watch has a snapshot and a subscription that was never alerted
C29_Witness ==
  /\ Logged /\ L.via = "process_watch" /\ L.appended # None
  /\ \E d \in L.dispatch : d.updated
  /\ \E s \in subscriptions :
       /\ s.watch_id # L.watch
       /\ s.last_emailed_cents = None
       /\ RowsOf(s.watch_id) # {}


\* C30: a run never fails as a whole: no main ends with an exception, every
\* watch of a run ends as saved, skipped or error, and a finished run has
\* one entry per watch.
C30_RunNeverFails ==
  /\ (Logged /\ L.via \notin Pipeline) => L.outcome # "raised"
  /\ \A j \in 1..Len(runlog) : runlog[j].outcome \in {"saved", "skipped", "error"}
  /\ RunOver =>
       \A j, k \in 1..Len(runlog) : runlog[j].watch = runlog[k].watch => j = k

====
